---- MODULE Spec2Model ----
(***************************************************************************)
(* Model of the Tasks API of src/main.py: an in-memory store DB (id ->      *)
(* Task), the id counter _id_counter, the API-key dependency require_key,   *)
(* the pydantic models TaskIn / TaskUpdate / Task and the six task          *)
(* endpoints.                                                               *)
(*                                                                          *)
(* Representation.  A string is represented by its length, the only         *)
(* attribute the validators read; strings of different length are           *)
(* different strings.  Python's None is None (-1) in a numeric field and    *)
(* NoneStr in an enum field.  A request payload is a function from the      *)
(* fields PRESENT in the JSON body to their values, so DOMAIN p is          *)
(* pydantic's "fields set".  The wall clock is the variable now; its unit   *)
(* is one calendar day, so date.today() and datetime.now() both read it.    *)
(* Two requests handled without a Tick in between read the same clock       *)
(* value.                                                                   *)
(*                                                                          *)
(* History variables.  deleted is the set of ids a DELETE has answered 204  *)
(* for; last is the latest request and its status code, recorded only by    *)
(* SpecLog; reqs holds the requests in flight of SpecConc, each with its    *)
(* position in the handler.                                                 *)
(***************************************************************************)
EXTENDS Integers, FiniteSets, Sequences, TLC

VARIABLES DB, nextId, now, deleted, last, reqs

vars == <<DB, nextId, now, deleted, last, reqs>>

\* ------------------------------------------------------------------ bounds
\* Largest clock reading explored (the clock starts at 1).
MaxNow == 2
\* Largest value the id counter hands out.
MaxId == 2
\* Number of requests in flight in the interleaved specification.
NumReq == 2

\* --------------------------------------------------------------- constants
None == -1
NoneStr == "None"
Absent == "absent"
API_KEY == "supersecret123"

Priority == {"low", "medium", "high"}
Status == {"todo", "doing", "done"}

TitleMin == 4
TitleMax == 100
DescMax == 100
UpdTitleMin == 1
UpdTitleMax == 100
UpdDescMax == 500

InFields == {"title", "description", "priority", "status", "due_date"}

\* ------------------------------------------------------------- require_key
\* 0: the dependency passed.  A required Header(...) that is missing is a
\* request-validation error (422) and require_key's body never runs; a
\* present header that differs from API_KEY raises HTTPException(401).
require_key(key) ==
    IF key = Absent THEN 422
    ELSE IF key # API_KEY THEN 401
    ELSE 0

\* --------------------------------------------------------------- validators
\* due_not_past: "if v and v < date.today(): raise ValueError".
due_not_past(v, today) == ~(v # None /\ v < today)

\* TaskIn(**body): the request body of POST and PUT.
TaskInValid(p, today) ==
    /\ DOMAIN p \subseteq InFields
    /\ "title" \in DOMAIN p
    /\ p["title"] # None
    /\ p["title"] >= TitleMin /\ p["title"] <= TitleMax
    /\ "description" \in DOMAIN p =>
          (p["description"] = None \/ p["description"] <= DescMax)
    /\ "priority" \in DOMAIN p => p["priority"] \in Priority
    /\ "status" \in DOMAIN p => p["status"] \in Status
    /\ "due_date" \in DOMAIN p => due_not_past(p["due_date"], today)

\* payload.model_dump() of a TaskIn: every field, defaults filled in.
TaskInDump(p) ==
    [title       |-> p["title"],
     description |-> IF "description" \in DOMAIN p THEN p["description"] ELSE None,
     priority    |-> IF "priority" \in DOMAIN p THEN p["priority"] ELSE "medium",
     status      |-> IF "status" \in DOMAIN p THEN p["status"] ELSE "todo",
     due_date    |-> IF "due_date" \in DOMAIN p THEN p["due_date"] ELSE None]

\* TaskUpdate(**body): the request body of PATCH.
TaskUpdateValid(p, today) ==
    /\ DOMAIN p \subseteq InFields
    /\ "title" \in DOMAIN p =>
          (p["title"] = None \/ (p["title"] >= UpdTitleMin /\ p["title"] <= UpdTitleMax))
    /\ "description" \in DOMAIN p =>
          (p["description"] = None \/ p["description"] <= UpdDescMax)
    /\ "priority" \in DOMAIN p => p["priority"] \in Priority \cup {NoneStr}
    /\ "status" \in DOMAIN p => p["status"] \in Status \cup {NoneStr}
    /\ "due_date" \in DOMAIN p => due_not_past(p["due_date"], today)

\* Task(**data): Task inherits TaskIn's fields, constraints and validator, so
\* building a Task validates title, description, priority, status and
\* due_date again, against the date at the time of the call.
TaskValid(d, today) ==
    /\ d["title"] # None
    /\ d["title"] >= TitleMin /\ d["title"] <= TitleMax
    /\ (d["description"] = None \/ d["description"] <= DescMax)
    /\ d["priority"] \in Priority
    /\ d["status"] \in Status
    /\ due_not_past(d["due_date"], today)

\* Task(id=..., created_at=..., updated_at=..., **dump)
MkTask(tid, created, updated, d) ==
    [id |-> tid, title |-> d["title"], description |-> d["description"],
     priority |-> d["priority"], status |-> d["status"],
     due_date |-> d["due_date"], created_at |-> created, updated_at |-> updated]

\* DB[tid] = task
Store(db, tid, task) ==
    [i \in DOMAIN db \cup {tid} |-> IF i = tid THEN task ELSE db[i]]

\* del DB[tid]
Remove(db, tid) == [i \in DOMAIN db \ {tid} |-> db[i]]

Reply(code, db, ctr) == [code |-> code, db |-> db, ctr |-> ctr]

\* ------------------------------------------------------------ handler bodies
\* Each takes the store and counter as the handler finds them and the clock
\* reading t in the handler, and yields the response code with the store and
\* counter it leaves behind.  500 is the framework's answer to an exception
\* that is not an HTTPException (pydantic's ValidationError, KeyError).

\* Mutant of create_task: the id is taken from the size of the store
\* (len(DB) + 1) instead of from the counter.
create_task_by_len(db, ctr, p, t) ==
    LET tid  == Cardinality(DOMAIN db) + 1
        data == TaskInDump(p)
    IN  IF ~TaskValid(data, t)
        THEN Reply(500, db, ctr)
        ELSE Reply(201, Store(db, tid, MkTask(tid, t, t, data)), ctr)

create_task(db, ctr, p, t) ==
    LET tid  == ctr
        data == TaskInDump(p)
    IN  IF ~TaskValid(data, t)
        THEN Reply(500, db, ctr + 1)
        ELSE Reply(201, Store(db, tid, MkTask(tid, t, t, data)), ctr + 1)

get_task(db, ctr, tid) ==
    IF tid \notin DOMAIN db THEN Reply(404, db, ctr) ELSE Reply(200, db, ctr)

\* Mutant of replace_task: created_at is set like updated_at instead of
\* being carried over from the stored record.
replace_task_fresh(db, ctr, tid, p, t) ==
    IF tid \notin DOMAIN db THEN Reply(404, db, ctr)
    ELSE LET data == TaskInDump(p)
         IN  IF ~TaskValid(data, t)
             THEN Reply(500, db, ctr)
             ELSE Reply(200, Store(db, tid, MkTask(tid, t, t, data)), ctr)

replace_task(db, ctr, tid, p, t) ==
    IF tid \notin DOMAIN db THEN Reply(404, db, ctr)
    ELSE LET data == TaskInDump(p)
         IN  IF ~TaskValid(data, t)
             THEN Reply(500, db, ctr)
             ELSE Reply(200, Store(db, tid, MkTask(tid, db[tid].created_at, t, data)), ctr)

\* Mutant of Merge: the body is dumped without exclude_unset and with
\* TaskIn's defaults, so an absent priority or status is reset.
Merge_defaults(existing, p, t) ==
    [f \in DOMAIN existing |->
        IF f = "updated_at" THEN t
        ELSE IF f \in DOMAIN p THEN p[f]
        ELSE IF f = "priority" THEN "medium"
        ELSE IF f = "status" THEN "todo"
        ELSE existing[f]]

\* data = existing.model_dump(); data.update(payload.model_dump(exclude_unset=True));
\* data["updated_at"] = now
Merge(existing, p, t) ==
    [f \in DOMAIN existing |->
        IF f = "updated_at" THEN t
        ELSE IF f \in DOMAIN p THEN p[f]
        ELSE existing[f]]

update_task(db, ctr, tid, p, t) ==
    IF tid \notin DOMAIN db THEN Reply(404, db, ctr)
    ELSE LET data == Merge(db[tid], p, t)
         IN  IF ~TaskValid(data, t)
             THEN Reply(500, db, ctr)
             ELSE Reply(200, Store(db, tid, data), ctr)

\* Mutant of delete_task: 204 is answered and the record is not removed.
delete_task_keep(db, ctr, tid) ==
    IF tid \notin DOMAIN db THEN Reply(404, db, ctr)
    ELSE Reply(204, db, ctr)

delete_task(db, ctr, tid) ==
    IF tid \notin DOMAIN db THEN Reply(404, db, ctr)
    ELSE Reply(204, Remove(db, tid), ctr)

list_tasks_simple(db, ctr) == Reply(200, db, ctr)

\* ------------------------------------------------------------- the endpoints
\* What FastAPI does with a request before and around the handler: the
\* dependency first (a wrong key ends the request with 401 at once; a
\* missing header is collected as a validation error), then the body model,
\* validated at clock reading tv; the handler runs at clock reading th.

post_tasks(db, ctr, key, p, tv, th) ==
    IF require_key(key) = 401 THEN Reply(401, db, ctr)
    ELSE IF require_key(key) = 422 \/ ~TaskInValid(p, tv) THEN Reply(422, db, ctr)
    ELSE create_task(db, ctr, p, th)

get_tasks_id(db, ctr, key, tid) ==
    IF require_key(key) # 0 THEN Reply(require_key(key), db, ctr)
    ELSE get_task(db, ctr, tid)

put_tasks_id(db, ctr, key, tid, p, tv, th) ==
    IF require_key(key) = 401 THEN Reply(401, db, ctr)
    ELSE IF require_key(key) = 422 \/ ~TaskInValid(p, tv) THEN Reply(422, db, ctr)
    ELSE replace_task(db, ctr, tid, p, th)

patch_tasks_id(db, ctr, key, tid, p, tv, th) ==
    IF require_key(key) = 401 THEN Reply(401, db, ctr)
    ELSE IF require_key(key) = 422 \/ ~TaskUpdateValid(p, tv) THEN Reply(422, db, ctr)
    ELSE update_task(db, ctr, tid, p, th)

delete_tasks_id(db, ctr, key, tid) ==
    IF require_key(key) # 0 THEN Reply(require_key(key), db, ctr)
    ELSE delete_task(db, ctr, tid)

get_tasks(db, ctr, key) ==
    IF require_key(key) # 0 THEN Reply(require_key(key), db, ctr)
    ELSE list_tasks_simple(db, ctr)

\* ------------------------------------------------------------------- inputs
Keys == {Absent, "wrong", API_KEY}

\* Ids a request may name: assigned ones and ones never created.
TaskIds == 1..MaxId

EmptyBody == [f \in {} |-> None]

\* Bodies sent to POST and PUT at clock reading t: an accepted one with only
\* the title, an accepted one with every field, and one per way of being
\* refused.
InBodies(t) ==
    { [title |-> 4],
      [title |-> 100, description |-> 100, priority |-> "high",
       status |-> "done", due_date |-> t],
      [title |-> 3],
      [title |-> 101],
      [title |-> None],
      [description |-> 100],
      [title |-> 4, description |-> 101],
      [title |-> 4, priority |-> "urgent"],
      [title |-> 4, status |-> NoneStr],
      [title |-> 4, due_date |-> t - 1] }

\* Bodies sent to PATCH at clock reading t.
UpdBodies(t) ==
    { EmptyBody,
      [status |-> "done"],
      [priority |-> "high"],
      [title |-> 3],
      [title |-> 0],
      [title |-> None],
      [description |-> 500],
      [description |-> 501],
      [priority |-> NoneStr],
      [status |-> "paused"],
      [due_date |-> t - 1] }

\* Time that may pass between the validation of a request and the run of its
\* handler: none, or one tick of the clock.
Advances == 0..1

\* ---------------------------------------------------------------------------
\* Requests handled one at a time.  Each action is one whole request.
\* deleted is a history variable: the ids a DELETE has answered 204 for.
\* last is a history variable, kept by the logging specification SpecLog
\* only: the last request (operation, id, key, body, clock reading at its
\* arrival) and its response code.
\* ---------------------------------------------------------------------------
Idle == [op |-> "idle"]

NoRequest == [op |-> "none", id |-> 0, key |-> Absent, p |-> EmptyBody, at |-> 0, code |-> 0]

Init ==
    /\ DB = [i \in {} |-> None]
    /\ nextId = 1
    /\ now = 1
    /\ deleted = {}
    /\ last = NoRequest
    /\ reqs = [r \in 1..NumReq |-> Idle]

\* The request (op, tid, key, p), answered r, is over at clock reading t.
Done(op, tid, key, p, r, t, log) ==
    /\ DB' = r.db
    /\ nextId' = r.ctr
    /\ now' = t
    /\ deleted' = IF op = "DELETE" /\ r.code = 204 THEN deleted \cup {tid} ELSE deleted
    /\ last' = IF log
               THEN [op |-> op, id |-> tid, key |-> key, p |-> p, at |-> now, code |-> r.code]
               ELSE last
    /\ UNCHANGED reqs

Create(log) ==
    \E key \in Keys, p \in InBodies(now), adv \in Advances :
        /\ now + adv <= MaxNow
        /\ nextId <= MaxId
        /\ Done("POST", nextId, key, p,
                post_tasks(DB, nextId, key, p, now, now + adv), now + adv, log)

Get(log) ==
    \E key \in Keys, tid \in TaskIds :
        /\ tid \in TaskIds
        /\ Done("GET", tid, key, EmptyBody, get_tasks_id(DB, nextId, key, tid), now, log)

Replace(log) ==
    \E key \in Keys, tid \in TaskIds, p \in InBodies(now), adv \in Advances :
        /\ now + adv <= MaxNow
        /\ Done("PUT", tid, key, p,
                put_tasks_id(DB, nextId, key, tid, p, now, now + adv), now + adv, log)

Update(log) ==
    \E key \in Keys, tid \in TaskIds, p \in UpdBodies(now), adv \in Advances :
        /\ now + adv <= MaxNow
        /\ Done("PATCH", tid, key, p,
                patch_tasks_id(DB, nextId, key, tid, p, now, now + adv), now + adv, log)

Delete(log) ==
    \E key \in Keys, tid \in TaskIds :
        /\ tid \in TaskIds
        /\ Done("DELETE", tid, key, EmptyBody, delete_tasks_id(DB, nextId, key, tid), now, log)

List(log) ==
    \E key \in Keys :
        /\ key \in Keys
        /\ Done("LIST", 0, key, EmptyBody, get_tasks(DB, nextId, key), now, log)

\* The wall clock advances between requests.
Tick ==
    /\ now < MaxNow
    /\ now' = now + 1
    /\ UNCHANGED <<DB, nextId, deleted, last, reqs>>

Next ==
    \/ Create(FALSE) \/ Get(FALSE) \/ Replace(FALSE) \/ Update(FALSE)
    \/ Delete(FALSE) \/ List(FALSE) \/ Tick

Spec == Init /\ [][Next]_vars

\* The same requests, each recorded in last with its response.
NextLog ==
    \/ Create(TRUE) \/ Get(TRUE) \/ Replace(TRUE) \/ Update(TRUE)
    \/ Delete(TRUE) \/ List(TRUE) \/ Tick

SpecLog == Init /\ [][NextLog]_vars

\* ---------------------------------------------------------------------------
\* Requests handled concurrently.  FastAPI runs each "def" handler in a worker
\* thread, so the handlers' accesses to DB interleave; one access (a
\* membership test, a subscript read, a subscript store, a del) is one step.
\* A slot holds one request that has passed require_key and the validation of
\* its body: its operation, id and body p, its position pc in the handler,
\* the record snap it has read or built, and its response code once pc is
\* "done".  overtaken is a history field: a DELETE of the slot's id answered
\* 204 after the slot's existence check.
\* ---------------------------------------------------------------------------
Slots == 1..NumReq

Fin(rq, code) == [rq EXCEPT !.pc = "done", !.code = code]

\* Mutant of replace_step: PUT as an upsert; an id that is not in the store
\* passes the check and gets the current clock reading as created_at.
replace_step_upsert(db, rq, t) ==
    IF rq.pc = "check"
    THEN [db |-> db, rq |-> [rq EXCEPT !.pc = "build"]]
    ELSE IF rq.pc = "build"
    THEN IF ~TaskValid(TaskInDump(rq.p), t)
         THEN [db |-> db, rq |-> Fin(rq, 500)]
         ELSE [db |-> db,
               rq |-> [rq EXCEPT !.pc = "write",
                                 !.snap = MkTask(rq.id,
                                                 IF rq.id \in DOMAIN db
                                                 THEN db[rq.id].created_at ELSE t,
                                                 t, TaskInDump(rq.p))]]
    ELSE [db |-> Store(db, rq.id, rq.snap), rq |-> Fin(rq, 200)]

\* replace_task, line by line: the existence check (84-85), the read of
\* created_at and the construction of the Task (86-87), the store (88).
replace_step(db, rq, t) ==
    IF rq.pc = "check"
    THEN IF rq.id \notin DOMAIN db
         THEN [db |-> db, rq |-> Fin(rq, 404)]
         ELSE [db |-> db, rq |-> [rq EXCEPT !.pc = "build"]]
    ELSE IF rq.pc = "build"
    THEN IF rq.id \notin DOMAIN db \/ ~TaskValid(TaskInDump(rq.p), t)
         THEN [db |-> db, rq |-> Fin(rq, 500)]
         ELSE [db |-> db,
               rq |-> [rq EXCEPT !.pc = "write",
                                 !.snap = MkTask(rq.id, db[rq.id].created_at, t,
                                                 TaskInDump(rq.p))]]
    ELSE [db |-> Store(db, rq.id, rq.snap), rq |-> Fin(rq, 200)]

\* Mutant of update_step: the merge is done on the record the store holds at
\* the time of the write (a read-modify-write under a lock).
update_step_reread(db, rq, t) ==
    IF rq.pc = "check"
    THEN IF rq.id \notin DOMAIN db
         THEN [db |-> db, rq |-> Fin(rq, 404)]
         ELSE [db |-> db, rq |-> [rq EXCEPT !.pc = "read"]]
    ELSE IF rq.pc = "read"
    THEN IF rq.id \notin DOMAIN db
         THEN [db |-> db, rq |-> Fin(rq, 500)]
         ELSE [db |-> db, rq |-> [rq EXCEPT !.pc = "write", !.snap = db[rq.id]]]
    ELSE IF rq.pc = "write"
    THEN LET cur == IF rq.id \in DOMAIN db THEN db[rq.id] ELSE rq.snap
         IN  IF ~TaskValid(Merge(cur, rq.p, t), t)
             THEN [db |-> db, rq |-> Fin(rq, 500)]
             ELSE [db |-> Store(db, rq.id, Merge(cur, rq.p, t)),
                   rq |-> [rq EXCEPT !.pc = "ret"]]
    ELSE IF rq.id \notin DOMAIN db
         THEN [db |-> db, rq |-> Fin(rq, 500)]
         ELSE [db |-> db, rq |-> Fin(rq, 200)]

\* update_task, line by line: the existence check (94-95), the read of the
\* existing record (96), the merge, construction and store (97-100), the
\* read of the stored record for the response (101).
update_step(db, rq, t) ==
    IF rq.pc = "check"
    THEN IF rq.id \notin DOMAIN db
         THEN [db |-> db, rq |-> Fin(rq, 404)]
         ELSE [db |-> db, rq |-> [rq EXCEPT !.pc = "read"]]
    ELSE IF rq.pc = "read"
    THEN IF rq.id \notin DOMAIN db
         THEN [db |-> db, rq |-> Fin(rq, 500)]
         ELSE [db |-> db, rq |-> [rq EXCEPT !.pc = "write", !.snap = db[rq.id]]]
    ELSE IF rq.pc = "write"
    THEN IF ~TaskValid(Merge(rq.snap, rq.p, t), t)
         THEN [db |-> db, rq |-> Fin(rq, 500)]
         ELSE [db |-> Store(db, rq.id, Merge(rq.snap, rq.p, t)),
               rq |-> [rq EXCEPT !.pc = "ret"]]
    ELSE IF rq.id \notin DOMAIN db
         THEN [db |-> db, rq |-> Fin(rq, 500)]
         ELSE [db |-> db, rq |-> Fin(rq, 200)]

\* delete_task, line by line: the existence check (106-107), the del (108).
delete_step(db, rq) ==
    IF rq.pc = "check"
    THEN IF rq.id \notin DOMAIN db
         THEN [db |-> db, rq |-> Fin(rq, 404)]
         ELSE [db |-> db, rq |-> [rq EXCEPT !.pc = "del"]]
    ELSE IF rq.id \notin DOMAIN db
         THEN [db |-> db, rq |-> Fin(rq, 500)]
         ELSE [db |-> Remove(db, rq.id), rq |-> Fin(rq, 204)]

\* The store the concurrent requests find: the one left by a single
\* POST {"title": <4 characters>} handled at clock reading 1.
ConcStore == create_task([i \in {} |-> None], 1, [title |-> 4], 1).db

ConcIds == DOMAIN ConcStore

ConcInBodies(t) ==
    { [title |-> 100, description |-> 100, priority |-> "high",
       status |-> "done", due_date |-> t] }

ConcUpdBodies == { [status |-> "done"], [priority |-> "high"] }

InitConc ==
    /\ DB = ConcStore
    /\ nextId = 2
    /\ now = 1
    /\ deleted = {}
    /\ last = NoRequest
    /\ reqs = [r \in Slots |-> Idle]

Arrive(r, op, tid, p) ==
    /\ reqs[r] = Idle
    /\ reqs' = [reqs EXCEPT ![r] = [op |-> op, id |-> tid, p |-> p, pc |-> "check",
                                     snap |-> EmptyBody, code |-> 0,
                                     overtaken |-> FALSE]]
    /\ UNCHANGED <<DB, nextId, now, deleted, last>>

\* A request passes the dependency and the validation and reaches its handler.
Begin(r) ==
    \E tid \in ConcIds :
        \/ \E p \in ConcInBodies(now) :
              /\ require_key(API_KEY) = 0 /\ TaskInValid(p, now)
              /\ Arrive(r, "PUT", tid, p)
        \/ \E p \in ConcUpdBodies :
              /\ require_key(API_KEY) = 0 /\ TaskUpdateValid(p, now)
              /\ Arrive(r, "PATCH", tid, p)
        \/ /\ require_key(API_KEY) = 0
           /\ Arrive(r, "DELETE", tid, EmptyBody)

InFlight(r, op) == reqs[r].op = op /\ reqs[r].pc # "done"

StepReplace(r) ==
    /\ InFlight(r, "PUT")
    /\ LET s == replace_step(DB, reqs[r], now)
       IN  /\ DB' = s.db
           /\ reqs' = [reqs EXCEPT ![r] = s.rq]
    /\ UNCHANGED <<nextId, now, deleted, last>>

StepUpdate(r) ==
    /\ InFlight(r, "PATCH")
    /\ LET s == update_step(DB, reqs[r], now)
       IN  /\ DB' = s.db
           /\ reqs' = [reqs EXCEPT ![r] = s.rq]
    /\ UNCHANGED <<nextId, now, deleted, last>>

\* Past its existence check and not yet answered.
PastCheck(rq) == rq.op \in {"PUT", "PATCH"} /\ rq.pc \in {"build", "read", "write", "ret"}

StepDelete(r) ==
    /\ InFlight(r, "DELETE")
    /\ LET s   == delete_step(DB, reqs[r])
           tid == reqs[r].id
       IN  /\ DB' = s.db
           /\ deleted' = IF s.rq.code = 204 THEN deleted \cup {tid} ELSE deleted
           /\ reqs' = [q \in Slots |->
                         IF q = r THEN s.rq
                         ELSE IF s.rq.code = 204 /\ PastCheck(reqs[q]) /\ reqs[q].id = tid
                              THEN [reqs[q] EXCEPT !.overtaken = TRUE]
                              ELSE reqs[q]]
    /\ UNCHANGED <<nextId, now, last>>

TickConc ==
    /\ now < MaxNow
    /\ now' = now + 1
    /\ UNCHANGED <<DB, nextId, deleted, last, reqs>>

NextConc ==
    \/ \E r \in Slots : Begin(r)
    \/ \E r \in Slots : StepReplace(r)
    \/ \E r \in Slots : StepUpdate(r)
    \/ \E r \in Slots : StepDelete(r)
    \/ TickConc

SpecConc == InitConc /\ [][NextConc]_vars


\* ---------------------------------------------------------------------------
\* Properties of the requests handled one at a time.  A property of an
\* endpoint is stated in every reachable state, for every request of the
\* probe sets below that may arrive in it.
\* ---------------------------------------------------------------------------
InProbes(t) ==
    InBodies(t) \cup
    { [title |-> 4, due_date |-> t + 1],
      [title |-> 4, due_date |-> None],
      [title |-> 100, description |-> None, priority |-> "low", status |-> "doing"],
      [title |-> 4, description |-> 100, due_date |-> t - 1] }

UpdProbes(t) ==
    UpdBodies(t) \cup
    { [title |-> 100],
      [due_date |-> t],
      [due_date |-> None],
      [description |-> 100, due_date |-> t + 1],
      [title |-> 100, priority |-> "low", status |-> "doing"],
      [description |-> None, status |-> "todo"] }

TaskFields == InFields \cup {"id", "created_at", "updated_at"}

\* db2 is db except possibly at tid.
SameExcept(db, db2, tid) ==
    /\ DOMAIN db2 \ {tid} = DOMAIN db \ {tid}
    /\ \A j \in DOMAIN db \ {tid} : db2[j] = db[j]

\* A step in which nothing but the clock changes: a Tick, or a request
\* that repeats the recorded one and changes nothing.
OnlyClock == UNCHANGED <<DB, nextId, deleted, last, reqs>>

\* C1 (as claimed): a request to any task endpoint whose x-api-key header is
\* absent or differs from the secret is answered 401, whatever its body and
\* id, and leaves the store and the id counter unchanged.
C1_UnauthorizedBeforeAll ==
    [][(last'.op # "none" /\ last'.key # API_KEY) =>
          (last'.code = 401 /\ DB' = DB /\ nextId' = nextId)]_vars

C3_DeleteThenNotFound ==
    /\ \A tid \in TaskIds :
          LET r == delete_tasks_id(DB, nextId, API_KEY, tid)
          IN  IF tid \in DOMAIN DB
              THEN /\ r.code = 204
                   /\ DOMAIN r.db = DOMAIN DB \ {tid}
                   /\ SameExcept(DB, r.db, tid)
                   /\ r.ctr = nextId
              ELSE r = Reply(404, DB, nextId)
    /\ \A tid \in deleted :
          /\ tid \notin DOMAIN DB
          /\ get_tasks_id(DB, nextId, API_KEY, tid) = Reply(404, DB, nextId)
          /\ delete_tasks_id(DB, nextId, API_KEY, tid) = Reply(404, DB, nextId)
          /\ \A adv \in Advances :
                /\ \A p \in InProbes(now) :
                      TaskInValid(p, now) =>
                          put_tasks_id(DB, nextId, API_KEY, tid, p, now, now + adv)
                              = Reply(404, DB, nextId)
                /\ \A p \in UpdProbes(now) :
                      TaskUpdateValid(p, now) =>
                          patch_tasks_id(DB, nextId, API_KEY, tid, p, now, now + adv)
                              = Reply(404, DB, nextId)

\* C3 witness: an id has been deleted with 204 and another record, modified
\* since its creation, is still stored.
C3_Witness ==
    /\ deleted # {}
    /\ \E j \in DOMAIN DB : DB[j].updated_at > DB[j].created_at

\* C4: a PATCH answered 200 leaves every other record as it was, gives each
\* field present in the body the body's value, sets updated_at to the clock
\* reading in the handler, and keeps id, created_at and every field absent
\* from the body.
C4_PatchFrame ==
    \A tid \in DOMAIN DB, adv \in Advances :
        \A p \in UpdProbes(now) :
            LET r == patch_tasks_id(DB, nextId, API_KEY, tid, p, now, now + adv)
            IN  r.code = 200 =>
                  /\ r.ctr = nextId
                  /\ tid \in DOMAIN r.db
                  /\ DOMAIN r.db = DOMAIN DB
                  /\ SameExcept(DB, r.db, tid)
                  /\ DOMAIN r.db[tid] = TaskFields
                  /\ \A f \in DOMAIN p : r.db[tid][f] = p[f]
                  /\ r.db[tid].updated_at = now + adv
                  /\ \A f \in TaskFields \ (DOMAIN p \cup {"updated_at"}) :
                        r.db[tid][f] = DB[tid][f]

\* C4 witness: two records are stored and one of them, created with only a
\* title, has since been given status done by a PATCH at a later clock reading.
C4_Witness ==
    /\ Cardinality(DOMAIN DB) = 2
    /\ \E i \in DOMAIN DB :
          /\ DB[i].title = 4
          /\ DB[i].status = "done"
          /\ DB[i].priority = "medium"
          /\ DB[i].updated_at > DB[i].created_at

\* C5 (as claimed): a PUT answered 200 keeps the record's id and created_at
\* and makes updated_at strictly greater than it was.
C5_UpdatedStrictlyGreater ==
    \A tid \in DOMAIN DB, adv \in Advances :
        \A p \in InProbes(now) :
            LET r == put_tasks_id(DB, nextId, API_KEY, tid, p, now, now + adv)
            IN  r.code = 200 =>
                  /\ r.db[tid].id = tid
                  /\ r.db[tid].created_at = DB[tid].created_at
                  /\ r.db[tid].updated_at > DB[tid].updated_at

\* C5 (amended): a PUT answered 200 keeps the record's id and created_at and
\* sets updated_at to the clock reading in the handler, which is not smaller
\* than the previous updated_at; created_at never exceeds updated_at.
C5_UpdatedIsHandlerClock ==
    /\ \A i \in DOMAIN DB : DB[i].created_at <= DB[i].updated_at /\ DB[i].updated_at <= now
    /\ \A tid \in DOMAIN DB, adv \in Advances :
          \A p \in InProbes(now) :
              LET r == put_tasks_id(DB, nextId, API_KEY, tid, p, now, now + adv)
              IN  r.code = 200 =>
                    /\ r.db[tid].id = tid
                    /\ r.db[tid].created_at = DB[tid].created_at
                    /\ r.db[tid].updated_at = now + adv
                    /\ r.db[tid].updated_at >= DB[tid].updated_at

\* C5 witness: a record holds the fields of the full body and was modified
\* after its creation: a POST, a tick of the clock, then a PUT.
C5_Witness ==
    \E i \in DOMAIN DB :
        /\ DB[i].title = 100
        /\ DB[i].updated_at > DB[i].created_at

\* C6 (as claimed): a PATCH with the correct key on a stored id whose body
\* TaskUpdate accepts is answered 200 and stores the merged record with
\* updated_at set to the clock reading in the handler.
C6_ValidPatchSucceeds ==
    [][(/\ ~OnlyClock
        /\ last'.op = "PATCH"
        /\ last'.key = API_KEY
        /\ last'.id \in DOMAIN DB
        /\ TaskUpdateValid(last'.p, last'.at)) =>
          (/\ last'.code = 200
           /\ DB' = Store(DB, last'.id, Merge(DB[last'.id], last'.p, now')))]_vars

\* The response codes of a request that succeeded.
Success == {200, 201, 204}

\* C7 (as claimed): a request that does not succeed leaves the store and the
\* id counter as they were.
C7_FailureChangesNothing ==
    [][(last'.op # "none" /\ last'.code \notin Success) =>
          (DB' = DB /\ nextId' = nextId)]_vars

\* The bodies C8 says a POST accepts, at current date today.
C8_Accepted(p, today) ==
    /\ "title" \in DOMAIN p /\ p["title"] # None
    /\ p["title"] >= 4 /\ p["title"] <= 100
    /\ "description" \in DOMAIN p =>
          (p["description"] = None \/ p["description"] <= 100)
    /\ "priority" \in DOMAIN p => p["priority"] \in {"low", "medium", "high"}
    /\ "status" \in DOMAIN p => p["status"] \in {"todo", "doing", "done"}
    /\ "due_date" \in DOMAIN p => (p["due_date"] = None \/ p["due_date"] >= today)

\* C8 (as claimed): a POST with the correct key is answered 201 and stores
\* the task exactly when its body is one of C8_Accepted at the date the
\* request arrives; otherwise it is answered 422 and nothing is stored.
C8_CreateExactlyWhenValid ==
    [][(~OnlyClock /\ last'.op = "POST" /\ last'.key = API_KEY) =>
          IF C8_Accepted(last'.p, last'.at)
          THEN /\ last'.code = 201
               /\ last'.id \notin DOMAIN DB
               /\ last'.id \in DOMAIN DB'
               /\ SameExcept(DB, DB', last'.id)
          ELSE last'.code = 422 /\ DB' = DB]_vars

\* ---------------------------------------------------------------------------
\* Properties of the requests handled concurrently (SpecConc).
\* ---------------------------------------------------------------------------

\* Slot r stores its record in this step.
Writes(r) ==
    /\ reqs[r].op \in {"PUT", "PATCH"}
    /\ reqs[r].pc = "write"
    /\ reqs'[r].pc \in {"ret", "done"}
    /\ reqs'[r].code # 500

\* C9: no lock guards the read-modify-write of PUT and PATCH: the record a
\* request stores is built from what it read earlier, not from what the store
\* holds when it writes.  A PATCH stores, for every field absent from its
\* body, the value of its snapshot, and a PUT stores the record it built, so a
\* change another request made in between is dropped.
C9_WriteFromSnapshot ==
    [][\A r \in Slots :
          Writes(r) =>
              LET i == reqs[r].id
              IN  /\ i \in DOMAIN DB'
                  /\ reqs[r].op = "PUT" => DB'[i] = reqs[r].snap
                  /\ reqs[r].op = "PATCH" =>
                        \A f \in TaskFields \ (DOMAIN reqs[r].p \cup {"updated_at"}) :
                            DB'[i][f] = reqs[r].snap[f]]_vars

\* C9 witness (the lost update): two PATCHes on the same id whose bodies set
\* disjoint fields have both been answered 200, the record is stored, and it
\* does not hold the value one of them set.
C9_Witness ==
    \E r1, r2 \in Slots :
        /\ r1 # r2
        /\ reqs[r1].op = "PATCH" /\ reqs[r2].op = "PATCH"
        /\ reqs[r1].pc = "done" /\ reqs[r2].pc = "done"
        /\ reqs[r1].code = 200 /\ reqs[r2].code = 200
        /\ reqs[r1].id = reqs[r2].id
        /\ DOMAIN reqs[r1].p \cap DOMAIN reqs[r2].p = {}
        /\ reqs[r1].id \in DOMAIN DB
        /\ \E f \in DOMAIN reqs[r1].p : DB[reqs[r1].id][f] # reqs[r1].p[f]
        /\ \A f \in DOMAIN reqs[r2].p : DB[reqs[r2].id][f] = reqs[r2].p[f]

\* C10 (as claimed): an id a DELETE has answered 204 for is absent from the
\* store in every later state.
C10_DeletedStaysAbsent == \A i \in deleted : i \notin DOMAIN DB

\* C10 (amended): when a DELETE answers 204 the id is absent from the store;
\* afterwards the id enters the store again only by the store step of a PUT
\* or PATCH on that id that had passed its existence check before the DELETE
\* removed the record, and what comes back is the record that request built
\* from its earlier read.
C10_BackOnlyByOvertakenWrite ==
    [][/\ \A i \in deleted' \ deleted : i \notin DOMAIN DB'
       /\ \A i \in deleted :
             (i \notin DOMAIN DB /\ i \in DOMAIN DB') =>
                 \E r \in Slots :
                     /\ Writes(r)
                     /\ reqs[r].id = i
                     /\ reqs[r].overtaken
                     /\ DB'[i].created_at = reqs[r].snap.created_at]_vars

\* C10 witness: a DELETE has been answered 204, a PUT or PATCH on the same id
\* that it overtook has been answered 200, and the id is in the store.
C10_Witness ==
    \E d, r \in Slots :
        /\ reqs[d].op = "DELETE" /\ reqs[d].pc = "done" /\ reqs[d].code = 204
        /\ reqs[r].op \in {"PUT", "PATCH"} /\ reqs[r].pc = "done" /\ reqs[r].code = 200
        /\ reqs[r].id = reqs[d].id
        /\ reqs[r].overtaken
        /\ reqs[d].id \in deleted
        /\ reqs[d].id \in DOMAIN DB

====
